---- MODULE Spec2Model ----
(***************************************************************************)
(* The CMake build-system plugin of rez                                    *)
(* (src/src/rezplugins/build_system/cmake.py): the process-wide generator  *)
(* cache filled by CMakeBuildSystem.build_systems(), and the               *)
(* configure / build / install pipeline of CMakeBuildSystem.build().       *)
(*                                                                         *)
(* Text is modelled as sequences of tokens.  A token is a piece of text    *)
(* that the parser never looks inside: " ", "*", "=", "[arch]", the        *)
(* heading word "Generators", a generator name, a description.  A line of  *)
(* the help output is a sequence of tokens, the help output a sequence of  *)
(* lines (the result of stdout.split("\n")).                               *)
(***************************************************************************)
EXTENDS Integers, Sequences, FiniteSets, TLC

VARIABLES
    cls_build_systems,         \* CMakeBuildSystem._build_systems: <<>> is None, <<d>> the dict d
    cls_default_build_system,  \* CMakeBuildSystem._default_build_system: <<>> is None, <<n>> the name n
    helpCalls,                 \* number of times popen([cmake, "--help"]) has run
    helpText,                  \* SpecDiscover: the help output of the installed tool, fixed at start;
                               \* Spec draws the output at each popen and leaves this empty
    returned,                  \* what the last classmethod call returned: <<>> nothing yet, <<v>> the value v
    platform,                  \* platform_.name
    self,                      \* the CMakeBuildSystem instance: <<>> none, <<fields>>
    args,                      \* the arguments of the running / last build() call: <<>> none, <<record>>
    pc,                        \* "idle": the caller is between calls; "constructed": it holds
                               \* a new instance; "make", "install": build() is about to run
                               \* that execute_shell call; "returned": a call has ended and
                               \* the caller holds its result or its exception
    cmd,                       \* build()'s local cmd
    calls,                     \* context.execute_shell calls of the current build(), in order
    ret,                       \* what build() returned: <<>> nothing, <<dict>>
    descriptor,                \* create_forwarding_script calls of the current build(): <<>> or <<kwargs>>
    op,                        \* the call made: "", "__init__", "build_systems",
                               \* "default_build_system" or "build"
    raised,                    \* exception class that left the last call, "" if none
    resumed,                   \* the run of the forwarding script written by the last build():
                               \* <<>> not run, <<record>> what _FWD__spawn_build_shell did
    executor,                  \* SpecInject: the executor _add_build_actions is applied to;
                               \* <<>> elsewhere
    threads                    \* SpecThreads: the threads inside build_systems(), by thread;
                               \* <<>> elsewhere

vars == << cls_build_systems, cls_default_build_system, helpCalls, helpText, returned,
           platform, self, args, pc, cmd, calls, ret, descriptor, op, raised,
           resumed, executor, threads >>

(***************************************************************************)
(* Bounds                                                                  *)
(***************************************************************************)
MaxLines == 3       \* lines of a help output
MaxHelpCalls == 2   \* discoveries that reach popen in one process

(***************************************************************************)
(* Option values: None is <<>>, a value v is <<v>>.                        *)
(***************************************************************************)
None == << >>
Some(v) == << v >>
IsNone(o) == o = << >>
The(o) == o[1]

InSeq(x, s) == \E i \in DOMAIN s : s[i] = x

(***************************************************************************)
(* String helpers on token sequences                                       *)
(***************************************************************************)
\* "".join(tokens): the text a token sequence stands for
RECURSIVE Join(_)
Join(toks) == IF toks = << >> THEN "" ELSE Head(toks) \o Join(Tail(toks))

\* "=" in line
HasEq(line) == InSeq("=", line)

\* line.split("="): the parts between the "=" tokens
RECURSIVE SplitEq(_)
SplitEq(line) ==
    IF ~ HasEq(line) THEN << line >>
    ELSE LET i == CHOOSE k \in DOMAIN line :
                      line[k] = "=" /\ \A j \in 1..(k-1) : line[j] # "="
         IN  << SubSeq(line, 1, i-1) >> \o SplitEq(SubSeq(line, i+1, Len(line)))

\* name.replace("[arch]", "")
ReplaceArch(name) == SelectSeq(name, LAMBDA t : t # "[arch]")

\* name.startswith("* ")
StartsWithStar(name) == Len(name) >= 2 /\ name[1] = "*" /\ name[2] = " "

\* name[2:]
DropTwo(name) == SubSeq(name, 3, Len(name))

\* name.strip(" ")
Strip(name) ==
    LET keep == { i \in DOMAIN name : name[i] # " " }
    IN  IF keep = {} THEN << >>
        ELSE LET lo == CHOOSE i \in keep : \A j \in keep : i <= j
                 hi == CHOOSE i \in keep : \A j \in keep : i >= j
             IN  SubSeq(name, lo, hi)

\* line.startswith("Generators")
StartsWithGenerators(line) == Len(line) >= 1 /\ line[1] = "Generators"

(***************************************************************************)
(* The lines a help output is made of                                      *)
(***************************************************************************)
HeadingLine  == << "Generators" >>
PlainLine    == << " ", " ", "Ninja", " ", "[arch]", " ", "=", " ", "Generates ninja files." >>
StarLine     == << "*", " ", "Unix Makefiles", " ", "=", " ", "Generates makefiles." >>
StarLine2    == << "*", " ", "Ninja", "=", "Generates ninja files." >>
IndentedStar == << " ", "*", " ", "Xcode", " ", "=", "Generates Xcode files." >>
TwoEqLine    == << " ", " ", "make", "=", "mode", "=", "Generates makefiles." >>

HelpLines == { HeadingLine, PlainLine, StarLine, StarLine2, IndentedStar, TwoEqLine }

\* the help outputs SpecDiscover parses: stdout.split("\n") never is the
\* empty list
HelpTexts == UNION { [1..n -> HelpLines] : n \in 1..MaxLines }

\* the help outputs Spec draws at a popen: the lines of a well-formed
\* output, and the line that ends the loop with an exception
CommonLines == { HeadingLine, PlainLine, StarLine, TwoEqLine }
CommonTexts == UNION { [1..n -> CommonLines] : n \in 1..MaxLines }

(***************************************************************************)
(* build_systems(): the loop over the lines of the help output             *)
(* (cmake.py lines 73-98).  The loop state is a record:                    *)
(*   is_in_generators, generators  the two locals,                         *)
(*   written     the last value assigned to cls._default_build_system by   *)
(*               the loop (None: no assignment),                           *)
(*   error       the exception that ended the loop, "" if none.            *)
(***************************************************************************)
LoopStart == [ is_in_generators |-> FALSE, generators |-> << >>,
               written |-> None, error |-> "" ]

\* name, _ = line.split("="): unpacking needs exactly two parts
UnpackOk(parts) == Len(parts) = 2

\* is_default = name.startswith("* "), tested after the "[arch]" removal
\* and before name.strip(" ")
IsDefault(name) == StartsWithStar(name)

\* the name appended for a line, given the first part of the split
GeneratorName(part) ==
    LET name == ReplaceArch(part)
    IN  Join(Strip(IF IsDefault(name) THEN DropTwo(name) ELSE name))

\* one iteration of "for line in stdout.split("\n")"
LoopBody(st, line) ==
    IF st.is_in_generators
    THEN IF HasEq(line)
         THEN LET parts == SplitEq(line)
              IN  IF ~ UnpackOk(parts)
                  THEN [ st EXCEPT !.error = "ValueError" ]
                  ELSE [ st EXCEPT
                           !.written = IF IsDefault(ReplaceArch(parts[1]))
                                       THEN Some(GeneratorName(parts[1]))
                                       ELSE @,
                           !.generators = Append(@, GeneratorName(parts[1])) ]
         ELSE st
    ELSE IF StartsWithGenerators(line)
         THEN [ st EXCEPT !.is_in_generators = TRUE ]
         ELSE st

\* the whole loop; an exception ends it
RECURSIVE Loop(_, _, _)
Loop(st, text, i) ==
    IF i > Len(text) \/ st.error # "" THEN st
    ELSE Loop(LoopBody(st, text[i]), text, i + 1)

\* dict(zip(generators, generators)): keys and values are mirrored, so the
\* dict is modelled by its keys in insertion order; a repeated key keeps
\* the place of its first insertion
RECURSIVE DictZip(_)
DictZip(generators) ==
    IF generators = << >> THEN << >>
    ELSE LET front == DictZip(SubSeq(generators, 1, Len(generators) - 1))
             last  == generators[Len(generators)]
         IN  IF InSeq(last, front) THEN front ELSE Append(front, last)

(***************************************************************************)
(* _find_cmake (cmake.py lines 302-319).  which is what the lookups of the *)
(* executable give: None (not found) or the path.                          *)
(***************************************************************************)
CmakePath == "/usr/bin/cmake"
WhichResults == { None, Some(CmakePath) }

FindCmake(which) ==
    IF IsNone(which) THEN [ error |-> "RezCMakeError", exe |-> "" ]
    ELSE [ error |-> "", exe |-> The(which) ]

(***************************************************************************)
(* build_systems() as a function of the class attributes (bs, dflt), the   *)
(* popen count n and its inputs (what the lookup of the executable gives,  *)
(* and the state st in which the loop over the captured output ends): the  *)
(* new attributes, the count, the exception ("" if none) and the returned  *)
(* value (cmake.py lines 59-106).                                          *)
(***************************************************************************)
CachedNever(bs) == FALSE
Cached(bs) == ~ IsNone(bs)

BuildSystemsCall(bs, dflt, n, which, st) ==
    IF Cached(bs)
    THEN [ bs |-> bs, dflt |-> dflt, n |-> n, error |-> "", value |-> bs ]
    ELSE LET found == FindCmake(which)
         IN  IF found.error # ""
             THEN [ bs |-> bs, dflt |-> dflt, n |-> n,
                    error |-> found.error, value |-> None ]
             ELSE LET d == IF IsNone(st.written) THEN dflt ELSE st.written
                  IN  IF st.error # ""
                      THEN [ bs |-> bs, dflt |-> d, n |-> n + 1,
                             error |-> st.error, value |-> None ]
                      ELSE [ bs |-> Some(DictZip(st.generators)), dflt |-> d,
                             n |-> n + 1, error |-> "",
                             value |-> Some(DictZip(st.generators)) ]

\* default_build_system() (cmake.py lines 50-54)
DefaultBuildSystemCall(bs, dflt, n, which, st) ==
    LET r == BuildSystemsCall(bs, dflt, n, which, st)
    IN  IF r.error # "" THEN r ELSE [ r EXCEPT !.value = r.dflt ]

\* the loop over a help output, from its first line
ParseHelp(text) == Loop(LoopStart, text, 1)

\* the states the loop can end in, over the help outputs Spec draws.  Of
\* the list generators a call keeps dict(zip(generators, generators)) only,
\* so the ends that differ in repeated names alone are taken as one
LoopOutcomes ==
    { [ ParseHelp(text) EXCEPT !.generators = DictZip(@) ] : text \in CommonTexts }

\* a call reaches popen
ReachesPopen(bs, which) == ~ Cached(bs) /\ ~ IsNone(which)

(***************************************************************************)
(* The instance and the arguments of build()                               *)
(***************************************************************************)
Platforms == { "linux", "osx", "windows" }

\* legacy_build_systems (cmake.py lines 110-117)
LegacyNames == { "eclipse", "codeblocks", "make", "nmake", "mingw", "xcode" }
legacy_build_systems ==
    [ n \in LegacyNames |->
        CASE n = "eclipse"    -> "Eclipse CDT4 - Unix Makefiles"
          [] n = "codeblocks" -> "CodeBlocks - Unix Makefiles"
          [] n = "make"       -> "Unix Makefiles"
          [] n = "nmake"      -> "NMake Makefiles"
          [] n = "mingw"      -> "MinGW Makefiles"
          [] n = "xcode"      -> "Xcode" ]

\* settings.cmake_args (rezconfig.py lines 14-19)
cmake_args == << "-Wno-dev", "-DCMAKE_ECLIPSE_GENERATE_SOURCE_PROJECT=TRUE",
                 "-D_ECLIPSE_VERSION=4.3", "--no-warn-unused-cli" >>

\* the values the inputs are drawn from
BuildSystemChoices == { None, Some("Ninja"), Some("make"), Some("xcode"),
                        Some("Xcode"), Some("vs2019") }
MakeBinaries       == { None, Some("make"), Some("nmake") }
ChildArgChoices    == { << >>, << "-j8" >>, << "install" >> }
BuildTypes         == { "local", "central" }
RetCodes           == { 0, 1 }
\* the settings of config.rez_1_cmake_variables and
\* config.disable_rez_1_compatibility: rez-1 variables on, switched off, and
\* on with the compatibility disabled
Configs            ==
    { [ rez_1_cmake_variables |-> TRUE,  disable_rez_1_compatibility |-> FALSE ],
      [ rez_1_cmake_variables |-> FALSE, disable_rez_1_compatibility |-> FALSE ],
      [ rez_1_cmake_variables |-> TRUE,  disable_rez_1_compatibility |-> TRUE ] }
\* the variants of the package: variant.index and
\* variant.config.build_thread_count
Variants           == { [ index |-> 0, build_thread_count |-> 4 ],
                        [ index |-> 1, build_thread_count |-> 8 ] }
WorkingDir         == "/src/pkg"
BuildPath          == "/src/pkg/build"
InstallPath        == "/packages/pkg/1.0"
BuildArgs          == << "-DFOO=1", "-DBAR=2" >>
BuildTarget        == "Release"
KeyToken           == << "${CMAKE_MODULE_PATH}" >>

\* __init__ (cmake.py lines 154-171): the instance, or the exception
XcodeCheckFails(cbs, plat) == cbs = Some("xcode") /\ plat # "osx"

NewInstance(wbs, child, cbs, mk) ==
    [ working_dir |-> WorkingDir, write_build_scripts |-> wbs,
      build_args |-> BuildArgs, child_build_args |-> child,
      build_target |-> BuildTarget, cmake_build_system |-> cbs,
      make_binary |-> mk ]

(***************************************************************************)
(* build(): the cmake command (cmake.py lines 183-209)                     *)
(***************************************************************************)
\* str.replace('\\', '/') on a token sequence
BackslashToSlash(toks) ==
    [ i \in DOMAIN toks |-> IF toks[i] = "\\" THEN "/" ELSE toks[i] ]

\* the part of the command before the generator
CmakeCmdHead(found_exe, inst, a) ==
    << found_exe, "-d", inst.working_dir >> \o cmake_args \o inst.build_args \o
    << "-DCMAKE_INSTALL_PREFIX=" \o a.install_path,
       "-DCMAKE_MODULE_PATH=" \o Join(BackslashToSlash(KeyToken)),
       "-DCMAKE_BUILD_TYPE=" \o inst.build_target,
       "-DREZ_BUILD_TYPE=" \o a.build_type,
       "-DREZ_BUILD_INSTALL=" \o ToString(IF a.install THEN 1 ELSE 0) >>

\* config.rez_1_cmake_variables and not config.disable_rez_1_compatibility
\* and build_type == BuildType.central
CentralCompatAnyConfig(a) == a.build_type = "central"
CentralCompat(a) ==
    a.rez_1_cmake_variables /\ ~ a.disable_rez_1_compatibility
    /\ a.build_type = "central"

\* the generator lookup of lines 194-202 against the dict keys:
\* the arguments of -G, or the exception
Resolve(name, keys) ==
    IF ~ InSeq(name, keys)
    THEN IF name \in DOMAIN legacy_build_systems
         THEN [ error |-> "", generator |-> legacy_build_systems[name] ]
         ELSE [ error |-> "KeyError", generator |-> "" ]
    ELSE [ error |-> "", generator |-> name ]

(***************************************************************************)
(* build(): the make command (cmake.py lines 252-278)                      *)
(***************************************************************************)
\* any(x.startswith("-j") for x in child_build_args): the arguments are
\* whole tokens, these are the ones that start with "-j"
StartsWithDashJ(x) == x \in { "-j", "-j8" }
HasJobsArgNever(child) == FALSE
HasJobsArg(child) == \E i \in DOMAIN child : StartsWithDashJ(child[i])

MakeCmd(found_exe, inst, a) ==
    ( IF IsNone(inst.make_binary)
      THEN << found_exe, "--build", a.build_path >>
      ELSE IF The(inst.make_binary) # "nmake"
           THEN << The(inst.make_binary) >> \o
                ( IF ~ HasJobsArg(inst.child_build_args)
                  THEN << "-j" \o ToString(a.build_thread_count) >>
                  ELSE << >> )
           ELSE << >> )
    \o inst.child_build_args

AllCmdAllTarget(c, inst, plat) ==
    IF IsNone(inst.make_binary) THEN c \o << "--target", "all" >> ELSE c
AllCmd(c, inst, plat) ==
    IF IsNone(inst.make_binary)
    THEN c \o ( IF plat = "windows" THEN << "--target", "ALL_BUILD" >>
                                    ELSE << "--target", "all" >> )
    ELSE c

\* cmd after lines 288-290
InstallCmd(c, inst) ==
    ( IF IsNone(inst.make_binary) THEN Append(c, "--target") ELSE c )
    \o << "install" >>

(***************************************************************************)
(* build(): the decisions between the phases                               *)
(***************************************************************************)
\* "if retcode:" after the cmake call (line 232)
ConfigureFailedNever(retcode) == FALSE
ConfigureFailed(retcode) == retcode # 0

\* "if self.write_build_scripts:" (line 236)
DeferToUserNever(inst) == FALSE
DeferToUser(inst) == inst.write_build_scripts

\* "if not retcode and install and "install" not in cmd:" (line 287)
InstallWantedAnyRetcode(retcode, install, c) ==
    install /\ ~ InSeq("install", c)
InstallWantedAnyCmd(retcode, install, c) ==
    retcode = 0 /\ install
InstallWanted(retcode, install, c) ==
    retcode = 0 /\ install /\ ~ InSeq("install", c)

\* ret["success"] = (not retcode) (line 299)
SuccessAlways(retcode) == TRUE
Success(retcode) == retcode = 0

\* the callback bound at lines 217-224
Callback(a) ==
    [ variant_index |-> a.variant_index, build_type |-> a.build_type,
      install |-> a.install, build_path |-> a.build_path,
      install_path |-> a.install_path ]

\* one context.execute_shell call
ShellCall(phase, command, a, retcode) ==
    [ phase |-> phase, command |-> command, cwd |-> a.build_path,
      callback |-> Callback(a), retcode |-> retcode ]

\* the keyword arguments of create_forwarding_script (lines 239-247)
BuildEnvScript(a) == a.build_path \o "/" \o "build-env"
Forwarding(inst, a) ==
    [ script |-> BuildEnvScript(a), func_name |-> "_FWD__spawn_build_shell",
      working_dir |-> inst.working_dir, build_path |-> a.build_path,
      variant_index |-> a.variant_index, install |-> a.install,
      install_path |-> a.install_path ]

Result(success, script) == [ success |-> success, build_env_script |-> script ]

(***************************************************************************)
(* build() up to the first execute_shell call (cmake.py lines 179-209):    *)
(* the executable, the cmake command, the class attributes after the       *)
(* generator lookup, or the exception that ends build().                   *)
(***************************************************************************)
Prepare(inst, a, bs, dflt, n, whichCtx, whichSys, st) ==
    LET found == FindCmake(whichCtx)
        same  == [ bs |-> bs, dflt |-> dflt, n |-> n ]
        tail  == IF CentralCompat(a) THEN << "-DCENTRAL=1" >> ELSE << >>
    IN  IF found.error # ""
        THEN [ error |-> found.error, cls |-> same, exe |-> "", command |-> << >> ]
        ELSE
        LET head == CmakeCmdHead(found.exe, inst, a)
            r == IF ~ IsNone(inst.cmake_build_system)
                 THEN BuildSystemsCall(bs, dflt, n, whichSys, st)
                 ELSE DefaultBuildSystemCall(bs, dflt, n, whichSys, st)
            after == [ bs |-> r.bs, dflt |-> r.dflt, n |-> r.n ]
        IN  IF r.error # ""
            THEN [ error |-> r.error, cls |-> after, exe |-> found.exe,
                   command |-> << >> ]
            ELSE IF ~ IsNone(inst.cmake_build_system)
            THEN LET g == Resolve(The(inst.cmake_build_system), The(r.bs))
                 IN  IF g.error # ""
                     THEN [ error |-> g.error, cls |-> after, exe |-> found.exe,
                            command |-> << >> ]
                     ELSE [ error |-> "", cls |-> after, exe |-> found.exe,
                            command |-> head \o << "-G", g.generator >> \o tail ]
            ELSE [ error |-> "", cls |-> after, exe |-> found.exe,
                   command |-> head \o tail ]

\* the arguments build() is called with, and the configuration it reads
BuildArgs0 ==
    { [ install |-> install, build_type |-> build_type,
        build_path |-> BuildPath, install_path |-> InstallPath,
        variant_index |-> variant.index,
        build_thread_count |-> variant.build_thread_count,
        rez_1_cmake_variables |-> cfg.rez_1_cmake_variables,
        disable_rez_1_compatibility |-> cfg.disable_rez_1_compatibility ] :
      install \in BOOLEAN, build_type \in BuildTypes, variant \in Variants,
      cfg \in Configs }

(***************************************************************************)
(* Initial state: the class attributes as the class body sets them         *)
(* (cmake.py lines 48, 57), no instance, no call made.                     *)
(***************************************************************************)
InitCommon ==
    /\ cls_build_systems = None
    /\ cls_default_build_system = None
    /\ helpCalls = 0
    /\ returned = None
    /\ platform \in Platforms
    /\ self = None
    /\ args = None
    /\ pc = "idle"
    /\ cmd = << >>
    /\ calls = << >>
    /\ ret = None
    /\ descriptor = None
    /\ op = ""
    /\ raised = ""
    /\ resumed = None

Init == InitCommon /\ helpText = << >> /\ executor = None /\ threads = << >>

clsVars == << cls_build_systems, cls_default_build_system, helpCalls, helpText,
              platform >>

\* a classmethod call made by the caller between build() calls
ClassCall(name, r) ==
    /\ cls_build_systems' = r.bs
    /\ cls_default_build_system' = r.dflt
    /\ helpCalls' = r.n
    /\ returned' = IF r.error # "" THEN None ELSE Some(r.value)
    /\ op' = name
    /\ raised' = r.error
    /\ pc' = "returned"
    /\ UNCHANGED << helpText, platform, self, args, cmd, calls, ret, descriptor,
                    resumed, executor, threads >>

\* the loop ends a call can see: none matters when the call does not reach
\* the loop
Ends(reaches) == IF reaches THEN LoopOutcomes ELSE { LoopStart }

\* CMakeBuildSystem.build_systems()
build_systems ==
    /\ pc = "idle"
    /\ \E which \in WhichResults :
         /\ ReachesPopen(cls_build_systems, which) => helpCalls < MaxHelpCalls
         /\ \E st \in Ends(ReachesPopen(cls_build_systems, which)) :
              ClassCall("build_systems",
                        BuildSystemsCall(cls_build_systems, cls_default_build_system,
                                         helpCalls, which, st))

\* CMakeBuildSystem.default_build_system()
default_build_system ==
    /\ pc = "idle"
    /\ \E which \in WhichResults :
         /\ ReachesPopen(cls_build_systems, which) => helpCalls < MaxHelpCalls
         /\ \E st \in Ends(ReachesPopen(cls_build_systems, which)) :
              ClassCall("default_build_system",
                        DefaultBuildSystemCall(cls_build_systems,
                                               cls_default_build_system,
                                               helpCalls, which, st))

\* CMakeBuildSystem(...): __init__
new_instance ==
    /\ pc = "idle"
    /\ \E wbs \in BOOLEAN, child \in ChildArgChoices,
          cbs \in BuildSystemChoices, mk \in MakeBinaries :
         IF XcodeCheckFails(cbs, platform)
         THEN self' = None /\ raised' = "RezCMakeError" /\ pc' = "returned"
         ELSE /\ self' = Some(NewInstance(wbs, child, cbs, mk))
              /\ raised' = "" /\ pc' = "constructed"
    /\ op' = "__init__"
    /\ UNCHANGED << clsVars, returned, args, cmd, calls, ret, descriptor,
                    resumed, executor, threads >>

\* build(): from the call to the return of the first execute_shell call and
\* what follows it up to the next execute_shell call or the return
build ==
    /\ pc = "constructed"
    /\ \E a \in BuildArgs0, whichCtx \in WhichResults :
       \E whichSys \in IF IsNone(whichCtx) \/ Cached(cls_build_systems)
                       THEN { None } ELSE WhichResults :
       \E st \in Ends(~ IsNone(whichCtx) /\ ReachesPopen(cls_build_systems, whichSys)) :
       \E retcode \in RetCodes :
         LET inst == The(self)
             p == Prepare(inst, a, cls_build_systems, cls_default_build_system,
                          helpCalls, whichCtx, whichSys, st)
         IN  /\ ( /\ ~ IsNone(whichCtx)
                  /\ ReachesPopen(cls_build_systems, whichSys) )
                => helpCalls < MaxHelpCalls
             /\ cls_build_systems' = p.cls.bs
             /\ cls_default_build_system' = p.cls.dflt
             /\ helpCalls' = p.cls.n
             /\ args' = Some(a)
             /\ op' = "build"
             /\ raised' = p.error
             /\ IF p.error # ""
                THEN /\ calls' = << >> /\ ret' = None /\ descriptor' = None
                     /\ cmd' = << >> /\ pc' = "returned"
                ELSE /\ calls' = << ShellCall("configure", p.command, a, retcode) >>
                     /\ IF ConfigureFailed(retcode)
                        THEN /\ ret' = Some(Result(FALSE, None))
                             /\ descriptor' = None /\ cmd' = p.command
                             /\ pc' = "returned"
                        ELSE IF DeferToUser(inst)
                        THEN /\ descriptor' = Some(Forwarding(inst, a))
                             /\ ret' = Some(Result(TRUE, Some(BuildEnvScript(a))))
                             /\ cmd' = p.command /\ pc' = "returned"
                        ELSE /\ descriptor' = None /\ ret' = None
                             /\ cmd' = MakeCmd(p.exe, inst, a)
                             /\ pc' = "make"
    /\ UNCHANGED << helpText, returned, platform, self, resumed, executor, threads >>

\* build(): the second execute_shell call (lines 282-290) and what follows
build_make ==
    /\ pc = "make"
    /\ \E retcode \in RetCodes :
         LET inst == The(self)
             a == The(args)
         IN  /\ calls' = Append(calls, ShellCall("build", AllCmd(cmd, inst, platform),
                                                 a, retcode))
             /\ IF InstallWanted(retcode, a.install, cmd)
                THEN /\ cmd' = InstallCmd(cmd, inst)
                     /\ pc' = "install" /\ ret' = None
                ELSE /\ cmd' = cmd /\ pc' = "returned"
                     /\ ret' = Some(Result(Success(retcode), None))
    /\ UNCHANGED << clsVars, returned, self, args, descriptor, op, raised,
                    resumed, executor, threads >>

\* build(): the third execute_shell call (lines 294-300)
build_install ==
    /\ pc = "install"
    /\ \E retcode \in RetCodes :
         /\ calls' = Append(calls, ShellCall("install", cmd, The(args), retcode))
         /\ ret' = Some(Result(Success(retcode), None))
    /\ pc' = "returned"
    /\ UNCHANGED << clsVars, returned, self, args, cmd, descriptor, op, raised,
                    resumed, executor, threads >>

\* The caller goes on after a call: the result or exception it held, the
\* instance and build()'s locals are gone; the class attributes stay.
\* (This step is the caller's, not the plugin's: no line of cmake.py is
\* behind it.  An instance is never changed after __init__, so dropping it
\* loses no behaviour.)
caller_continues ==
    /\ pc = "returned"
    /\ pc' = "idle"
    /\ returned' = None /\ self' = None /\ args' = None /\ cmd' = << >>
    /\ calls' = << >> /\ ret' = None /\ descriptor' = None
    /\ op' = "" /\ raised' = "" /\ resumed' = None
    /\ UNCHANGED << clsVars, executor, threads >>

\* _FWD__spawn_build_shell (cmake.py lines 341-361), called by the
\* forwarding script with the keyword arguments create_forwarding_script
\* was given: what it loads, the callback it binds, the execute_shell call
\* it makes and the code it exits with
SpawnBuildShell(d, retcode) ==
    [ context |-> d.build_path \o "/" \o "build.rxt",
      package |-> d.working_dir,
      prompt |-> "BUILD>",
      callback |-> [ variant_index |-> d.variant_index, build_type |-> "local",
                     install |-> d.install, build_path |-> d.build_path,
                     install_path |-> d.install_path ],
      cwd |-> d.build_path,
      exit |-> retcode ]

\* the user runs the build-env script that the build() just returned wrote
FWD__spawn_build_shell ==
    /\ pc = "returned" /\ ~ IsNone(descriptor) /\ IsNone(resumed)
    /\ \E retcode \in RetCodes :
         resumed' = Some(SpawnBuildShell(The(descriptor), retcode))
    /\ UNCHANGED << clsVars, returned, self, args, pc, cmd, calls, ret,
                    descriptor, op, raised, executor, threads >>

Next ==
    \/ build_systems
    \/ default_build_system
    \/ new_instance
    \/ build
    \/ build_make
    \/ build_install
    \/ FWD__spawn_build_shell
    \/ caller_continues

Spec == Init /\ [][Next]_vars

(***************************************************************************)
(* Discovery alone: the installed tool prints helpText, and the only calls *)
(* are build_systems() and default_build_system().                         *)
(***************************************************************************)
InitDiscover ==
    InitCommon /\ helpText \in HelpTexts /\ executor = None /\ threads = << >>

discover_build_systems ==
    /\ pc = "idle"
    /\ \E which \in WhichResults :
         /\ ReachesPopen(cls_build_systems, which) => helpCalls < MaxHelpCalls
         /\ ClassCall("build_systems",
                      BuildSystemsCall(cls_build_systems, cls_default_build_system,
                                       helpCalls, which, ParseHelp(helpText)))

discover_default_build_system ==
    /\ pc = "idle"
    /\ \E which \in WhichResults :
         /\ ReachesPopen(cls_build_systems, which) => helpCalls < MaxHelpCalls
         /\ ClassCall("default_build_system",
                      DefaultBuildSystemCall(cls_build_systems, cls_default_build_system,
                                             helpCalls, which, ParseHelp(helpText)))

NextDiscover ==
    \/ discover_build_systems
    \/ discover_default_build_system
    \/ caller_continues

SpecDiscover == InitDiscover /\ [][NextDiscover]_vars

(***************************************************************************)
(* _add_build_actions (cmake.py lines 321-338) on an executor.  The        *)
(* executor's environment is a record: the CMAKE_MODULE_PATH list, the two *)
(* variables the method sets (<<>>: not set), and the keyword arguments    *)
(* set_standard_vars was last called with (<<>>: not called).              *)
(***************************************************************************)
MaxApply == 2   \* applications of _add_build_actions to one executor

\* os.path.dirname(__file__), as tokens, and os.path.join on it
PluginDir(plat) ==
    IF plat = "windows" THEN << "C:", "\\", "rez", "\\", "build_system" >>
    ELSE << "/", "rez", "/", "build_system" >>
PathSep(plat) == IF plat = "windows" THEN "\\" ELSE "/"
PathJoin(dir, name, plat) == dir \o << PathSep(plat), name >>

\* the binding of functools.partial(self._add_build_actions, ...), without
\* the live objects: build()'s (lines 217-224) is Callback(a)
Bindings ==
    [ variant_index : { 0, 1 }, build_type : BuildTypes, install : BOOLEAN,
      build_path : { BuildPath }, install_path : { InstallPath } ]

\* executor.env.CMAKE_MODULE_PATH.append(value): the value goes to the end
\* of the list
EnvAppend(list, value) == Append(list, value)

\* settings.install_pyc (rezconfig.py line 29)
InstallPycChoices == BOOLEAN

AddBuildActions(env, binding, install_pyc, plat) ==
    LET cmake_path    == PathJoin(PluginDir(plat), "cmake_files", plat)
        template_path == PathJoin(PluginDir(plat), "template_files", plat)
    IN  [ standard |-> Some(binding),
          CMAKE_MODULE_PATH |->
              EnvAppend(env.CMAKE_MODULE_PATH, Join(BackslashToSlash(cmake_path))),
          REZ_BUILD_DOXYFILE |->
              Some(Join(PathJoin(template_path, "Doxyfile", plat))),
          REZ_BUILD_INSTALL_PYC |-> Some(IF install_pyc THEN "1" ELSE "0") ]

\* the environments an executor starts with: the variables not set, the
\* list empty or holding a directory of the resolved packages
StartEnvs ==
    [ standard : { None }, CMAKE_MODULE_PATH : { << >>, << "/packages/cmake" >> },
      REZ_BUILD_DOXYFILE : { None }, REZ_BUILD_INSTALL_PYC : { None } ]

InitInject ==
    /\ InitCommon /\ helpText = << >> /\ threads = << >>
    /\ executor \in [ env : StartEnvs, once : { None }, applied : { 0 },
                      binding : Bindings, install_pyc : InstallPycChoices ]

\* CMakeBuildSystem._add_build_actions(executor, **binding); once keeps the
\* environment the first application left
add_build_actions ==
    /\ executor.applied < MaxApply
    /\ LET env == AddBuildActions(executor.env, executor.binding,
                                  executor.install_pyc, platform)
       IN  executor' = [ executor EXCEPT
                           !.env = env,
                           !.once = IF executor.applied = 0 THEN Some(env) ELSE @,
                           !.applied = @ + 1 ]
    /\ UNCHANGED << clsVars, returned, self, args, pc, cmd, calls, ret,
                    descriptor, op, raised, resumed, threads >>

NextInject == add_build_actions

SpecInject == InitInject /\ [][NextInject]_vars

(***************************************************************************)
(* build_systems() called from several threads (cmake.py lines 59-106).    *)
(* A thread runs the method in steps, each one read or write of a class    *)
(* attribute at most: the cache test (line 61), _find_cmake (65), popen    *)
(* (70-71), one iteration of the loop (75-98, with the write of line 94),  *)
(* the write of the dict (104).  The locals of a thread are its own:       *)
(*   pc  "idle", "find", "popen", "loop" or "store",                       *)
(*   st  is_in_generators and generators,  i  the next line,               *)
(*   accesses  calls started,  hits  calls answered from the cache,        *)
(*   wrote  whether the thread has assigned cls._default_build_system.     *)
(***************************************************************************)
MaxAccess == 2   \* build_systems() calls of one thread
Threads == { "t1", "t2" }

ThreadStart ==
    [ pc |-> "idle", st |-> LoopStart, i |-> 1, accesses |-> 0, hits |-> 0,
      wrote |-> FALSE ]

InitThreads ==
    /\ InitCommon /\ helpText \in CommonTexts /\ executor = None
    /\ threads = [ t \in Threads |-> ThreadStart ]

threadRest == << helpText, returned, platform, self, args, pc, cmd, calls, ret,
                 descriptor, op, raised, resumed, executor >>

\* line 61-62: the call and the test of the cache
thread_call(t) ==
    /\ threads[t].pc = "idle" /\ threads[t].accesses < MaxAccess
    /\ threads' = [ threads EXCEPT
                      ![t].accesses = @ + 1,
                      ![t].hits = IF Cached(cls_build_systems) THEN @ + 1 ELSE @,
                      ![t].pc = IF Cached(cls_build_systems) THEN "idle" ELSE "find" ]
    /\ UNCHANGED << cls_build_systems, cls_default_build_system, helpCalls,
                    threadRest >>

\* line 65: _find_cmake(); its exception ends the call
thread_find(t) ==
    /\ threads[t].pc = "find"
    /\ \E which \in WhichResults :
         threads' = [ threads EXCEPT
                        ![t].pc = IF FindCmake(which).error # "" THEN "idle"
                                  ELSE "popen" ]
    /\ UNCHANGED << cls_build_systems, cls_default_build_system, helpCalls,
                    threadRest >>

\* lines 67-74: popen, communicate, the locals of the loop
thread_popen(t) ==
    /\ threads[t].pc = "popen"
    /\ helpCalls' = helpCalls + 1
    /\ threads' = [ threads EXCEPT ![t].pc = "loop", ![t].st = LoopStart,
                                   ![t].i = 1 ]
    /\ UNCHANGED << cls_build_systems, cls_default_build_system, threadRest >>

\* lines 75-98: one line of the output; a default line assigns the class
\* attribute at once; ValueError ends the call
thread_line(t) ==
    /\ threads[t].pc = "loop" /\ threads[t].i <= Len(helpText)
    /\ LET r == LoopBody([ threads[t].st EXCEPT !.written = None ],
                         helpText[threads[t].i])
       IN  /\ cls_default_build_system' =
                IF IsNone(r.written) THEN cls_default_build_system ELSE r.written
           /\ threads' = [ threads EXCEPT
                             ![t].st = r,
                             ![t].i = @ + 1,
                             ![t].wrote = @ \/ ~ IsNone(r.written),
                             ![t].pc = IF r.error # "" THEN "idle" ELSE "loop" ]
    /\ UNCHANGED << cls_build_systems, helpCalls, threadRest >>

\* the loop is over
thread_loop_end(t) ==
    /\ threads[t].pc = "loop" /\ threads[t].i > Len(helpText)
    /\ threads' = [ threads EXCEPT ![t].pc = "store" ]
    /\ UNCHANGED << cls_build_systems, cls_default_build_system, helpCalls,
                    threadRest >>

\* lines 104-106
thread_store(t) ==
    /\ threads[t].pc = "store"
    /\ cls_build_systems' = Some(DictZip(threads[t].st.generators))
    /\ threads' = [ threads EXCEPT ![t].pc = "idle" ]
    /\ UNCHANGED << cls_default_build_system, helpCalls, threadRest >>

NextThreads ==
    \E t \in Threads :
      \/ thread_call(t)
      \/ thread_find(t)
      \/ thread_popen(t)
      \/ thread_line(t)
      \/ thread_loop_end(t)
      \/ thread_store(t)

SpecThreads == InitThreads /\ [][NextThreads]_vars

(***************************************************************************)
(* Properties of build()'s pipeline                                        *)
(***************************************************************************)
Phases(cs) == [ i \in DOMAIN cs |-> cs[i].phase ]
IsPrefix(s, t) == Len(s) <= Len(t) /\ \A i \in DOMAIN s : s[i] = t[i]
BuildRan == op = "build" /\ pc \in { "make", "install", "returned" }
BuildReturned == op = "build" /\ pc = "returned" /\ ~ IsNone(ret)

\* C1: when the configure call returns a nonzero exit code, build() returns
\* success = False and that call is the only execute_shell call of the
\* invocation, whatever install, write_build_scripts, make_binary and the
\* child arguments are.
C1_ConfigureFailureStops ==
    ( BuildRan /\ calls # << >> /\ calls[1].retcode # 0 )
    => /\ pc = "returned"
       /\ ~ IsNone(ret) /\ The(ret).success = FALSE
       /\ Len(calls) = 1 /\ calls[1].phase = "configure"
       /\ IsNone(descriptor)

C1_Witness ==
    /\ BuildReturned
    /\ calls # << >> /\ calls[1].retcode # 0
    /\ The(self).write_build_scripts /\ The(args).install
    /\ The(self).make_binary = Some("make")
    /\ The(self).child_build_args = << "install" >>

\* C2 as stated: with write_build_scripts set, build() returns success =
\* True with a non-empty script path and runs no build and no install call.
C2_AsStated ==
    ( BuildReturned /\ The(self).write_build_scripts )
    => /\ The(ret).success = TRUE
       /\ ~ IsNone(The(ret).build_env_script)
       /\ The(The(ret).build_env_script) # ""
       /\ Len(calls) = 1

\* C2, amended: with write_build_scripts set, build() runs no build and no
\* install call; and when the configure call exits 0 it writes the
\* forwarding script and returns success = True with the script's
\* non-empty path.
C2_Deferred ==
    ( BuildReturned /\ The(self).write_build_scripts )
    => /\ Len(calls) = 1 /\ calls[1].phase = "configure"
       /\ calls[1].retcode = 0
          => /\ The(ret).success = TRUE
             /\ ~ IsNone(The(ret).build_env_script)
             /\ The(The(ret).build_env_script) # ""
             /\ ~ IsNone(descriptor)
             /\ The(descriptor).script = The(The(ret).build_env_script)

C2_Witness ==
    /\ BuildReturned /\ The(self).write_build_scripts
    /\ calls[1].retcode = 0
    /\ The(ret).build_env_script = Some("/src/pkg/build/build-env")
    /\ The(args).install

\* C3: the execute_shell calls of a build() are a prefix of configure,
\* build, install; the build call follows a configure call that exited 0
\* with write_build_scripts off; the install call follows a build call that
\* exited 0; the forwarding script is written only after a configure call
\* that exited 0, and then no build or install call is made.
C3_PhaseOrder ==
    BuildRan
    => /\ IsPrefix(Phases(calls), << "configure", "build", "install" >>)
       /\ Len(calls) >= 2
          => calls[1].retcode = 0 /\ ~ The(self).write_build_scripts
       /\ Len(calls) >= 3 => calls[2].retcode = 0
       /\ pc = "make" => Len(calls) = 1 /\ calls[1].retcode = 0
       /\ pc = "install" => Len(calls) = 2 /\ calls[2].retcode = 0
       /\ ~ IsNone(descriptor)
          => Len(calls) = 1 /\ calls[1].retcode = 0 /\ pc = "returned"

C3_Witness ==
    /\ BuildReturned
    /\ Phases(calls) = << "configure", "build", "install" >>
    /\ calls[3].retcode # 0

\* C4: whenever build() returns a result, success is True exactly when the
\* last execute_shell call made exited 0; and once a call has been made,
\* build() ends by returning a result, never by raising.
C4_SuccessIsLastExitCode ==
    /\ BuildReturned
       => /\ calls # << >>
          /\ The(ret).success = ( calls[Len(calls)].retcode = 0 )
          /\ raised = ""
    /\ ( op = "build" /\ pc = "returned" /\ calls # << >> )
       => ~ IsNone(ret) /\ raised = ""

C4_Witness ==
    /\ BuildReturned
    /\ Len(calls) = 2 /\ calls[2].retcode # 0
    /\ The(ret).success = FALSE

\* C5: after a build call that exited 0, the install call is made exactly
\* when install was asked for and the child arguments do not already name
\* the install target; its command is the build command without the
\* full-build target, followed by "--target", "install" when no make_binary
\* is set and by "install" when one is; when it is not made, build()
\* returns success with the build call as the last one.
C5_Base ==
    IF IsNone(The(self).make_binary)
    THEN SubSeq(calls[2].command, 1, Len(calls[2].command) - 2)
    ELSE calls[2].command

C5_InstallPhase ==
    ( BuildRan /\ Len(calls) >= 2 /\ calls[2].retcode = 0 )
    => IF The(args).install /\ ~ InSeq("install", The(self).child_build_args)
       THEN \/ pc = "install" /\ Len(calls) = 2
            \/ /\ pc = "returned" /\ Len(calls) = 3
               /\ calls[3].phase = "install"
               /\ calls[3].command =
                    C5_Base \o ( IF IsNone(The(self).make_binary)
                                 THEN << "--target", "install" >>
                                 ELSE << "install" >> )
       ELSE /\ pc = "returned" /\ Len(calls) = 2
            /\ The(ret).success = TRUE

C5_Witness ==
    /\ BuildReturned /\ Len(calls) = 3
    /\ The(self).make_binary = Some("nmake")
    /\ calls[3].command = << "install" >>

C5_WitnessSkipped ==
    /\ BuildReturned /\ Len(calls) = 2 /\ calls[2].retcode = 0
    /\ The(args).install
    /\ The(self).child_build_args = << "install" >>

(***************************************************************************)
(* Properties of the generator cache                                       *)
(***************************************************************************)
\* C6: over any sequence of build_systems(), default_build_system() and
\* build() calls the help output is asked for at most once, and once a
\* discovery has completed no call changes the cached dict or the default,
\* and build_systems() and default_build_system() return them.
C6_DiscoveryOnce ==
    [][ /\ helpCalls' <= 1
        /\ Cached(cls_build_systems)
           => /\ cls_build_systems' = cls_build_systems
              /\ cls_default_build_system' = cls_default_build_system
        /\ ( Cached(cls_build_systems) /\ pc = "idle" /\ pc' = "returned"
             /\ op' = "build_systems" )
           => raised' = "" /\ returned' = Some(cls_build_systems)
        /\ ( Cached(cls_build_systems) /\ pc = "idle" /\ pc' = "returned"
             /\ op' = "default_build_system" )
           => raised' = "" /\ returned' = Some(cls_default_build_system)
      ]_vars

\* the generator that follows -G in a command, None when there is no -G
GeneratorArg(command) ==
    LET at == { i \in DOMAIN command : command[i] = "-G" }
    IN  IF at = {} \/ \E i \in at : i = Len(command) THEN None
        ELSE Some(command[(CHOOSE i \in at : TRUE) + 1])

\* the canonical generator of each legacy name, as documented
C10_Canonical ==
    [ n \in LegacyNames |->
        CASE n = "eclipse"    -> "Eclipse CDT4 - Unix Makefiles"
          [] n = "codeblocks" -> "CodeBlocks - Unix Makefiles"
          [] n = "make"       -> "Unix Makefiles"
          [] n = "nmake"      -> "NMake Makefiles"
          [] n = "mingw"      -> "MinGW Makefiles"
          [] n = "xcode"      -> "Xcode" ]

\* RezCMakeError is the BuildSystemError of this plugin (line 29)
IsBuildSystemError(e) == e = "RezCMakeError"

\* C10: with a non-empty selected generator, once the tool is found and the
\* dict discovered: a name in the dict is passed after -G as it is; another
\* name that is a legacy name is passed as its canonical generator; any
\* other name makes build() fail with a build-system error, and no
\* execute_shell call is made.
C10_Resolve ==
    ( /\ BuildRan /\ ~ IsNone(The(self).cmake_build_system)
      /\ Cached(cls_build_systems)
      /\ ~ IsBuildSystemError(raised) )
    => LET name == The(The(self).cmake_build_system)
           keys == The(cls_build_systems)
       IN  IF InSeq(name, keys)
           THEN /\ raised = "" /\ calls # << >>
                /\ GeneratorArg(calls[1].command) = Some(name)
           ELSE IF name \in LegacyNames
           THEN /\ raised = "" /\ calls # << >>
                /\ GeneratorArg(calls[1].command) = Some(C10_Canonical[name])
           ELSE FALSE

(***************************************************************************)
(* Properties of the parse of the help output (SpecDiscover)               *)
(***************************************************************************)
Discovered ==
    op \in { "build_systems", "default_build_system" } /\ pc = "returned"

\* the lines of a help output that follow its first heading line and hold
\* an "="
RECURSIVE CapturedFrom(_, _, _)
CapturedFrom(text, i, inGen) ==
    IF i > Len(text) THEN << >>
    ELSE IF inGen
         THEN ( IF HasEq(text[i]) THEN << text[i] >> ELSE << >> )
              \o CapturedFrom(text, i + 1, TRUE)
         ELSE CapturedFrom(text, i + 1, StartsWithGenerators(text[i]))
Captured(text) == CapturedFrom(text, 1, FALSE)

OneEq(line) == Len(SplitEq(line)) = 2

\* the name of a captured line: the text before the first "=", without
\* "[arch]", the marker and the surrounding blanks
TrimmedName(line) == Strip(ReplaceArch(SplitEq(line)[1]))
Marked(line) == StartsWithStar(TrimmedName(line))
NameOf(line) ==
    Join(Strip(IF Marked(line) THEN DropTwo(TrimmedName(line))
                               ELSE TrimmedName(line)))

\* C7: the dict a discovery returns has one entry per captured line, in
\* file order, repeated names kept.  Stated for the help outputs whose
\* captured lines hold one "=" each.
C7_OneEntryPerLine ==
    ( Discovered /\ ~ IsBuildSystemError(raised)
      /\ \A i \in DOMAIN Captured(helpText) : OneEq(Captured(helpText)[i]) )
    => /\ raised = "" /\ Cached(cls_build_systems)
       /\ The(cls_build_systems) =
            [ i \in DOMAIN Captured(helpText) |->
                GeneratorName(SplitEq(Captured(helpText)[i])[1]) ]

\* C8: after a discovery, the default is the name of the last captured
\* line whose trimmed name begins with "* ", and that name is in the dict;
\* it is None when no captured line is marked.
C8_DefaultMarker ==
    ( Discovered /\ raised = "" )
    => LET cap == Captured(helpText)
           marked == { i \in DOMAIN cap : Marked(cap[i]) }
       IN  IF marked = {}
           THEN IsNone(cls_default_build_system)
           ELSE LET last == CHOOSE i \in marked : \A j \in marked : j <= i
                IN  /\ cls_default_build_system = Some(NameOf(cap[last]))
                    /\ InSeq(NameOf(cap[last]), The(cls_build_systems))

\* C9: a discovery raises nothing on the content of the help output: once
\* the tool is found it returns a dict, which is empty, with no default,
\* when the output has no heading or no captured line.
C9_NeverRaises ==
    ( Discovered /\ ~ IsBuildSystemError(raised) )
    => /\ raised = "" /\ Cached(cls_build_systems)
       /\ Captured(helpText) = << >>
          => /\ The(cls_build_systems) = << >>
             /\ IsNone(cls_default_build_system)

(***************************************************************************)
(* Properties of the commands build() hands to execute_shell               *)
(***************************************************************************)
Count(x, s) == Cardinality({ i \in DOMAIN s : s[i] = x })

\* the defines every cmake command holds, for the arguments of a build()
C11_Defines ==
    << "-DCMAKE_INSTALL_PREFIX=" \o The(args).install_path,
       "-DCMAKE_MODULE_PATH=${CMAKE_MODULE_PATH}",
       "-DCMAKE_BUILD_TYPE=" \o The(self).build_target,
       "-DREZ_BUILD_TYPE=" \o The(args).build_type,
       IF The(args).install THEN "-DREZ_BUILD_INSTALL=1"
                            ELSE "-DREZ_BUILD_INSTALL=0" >>

\* the generator part: the selected name when the dict holds it, else the
\* generator the legacy table gives
C11_Generator ==
    IF IsNone(The(self).cmake_build_system) THEN << >>
    ELSE LET name == The(The(self).cmake_build_system)
         IN  << "-G", IF InSeq(name, The(cls_build_systems)) THEN name
                      ELSE C10_Canonical[name] >>

C11_Central ==
    IF /\ The(args).rez_1_cmake_variables
       /\ ~ The(args).disable_rez_1_compatibility
       /\ The(args).build_type = "central"
    THEN << "-DCENTRAL=1" >> ELSE << >>

\* C11: the command of the configure call is the tool path, "-d" and the
\* working directory, settings.cmake_args, the extra build arguments, the
\* five defines, then "-G" and the canonical generator exactly when a
\* generator was selected (never for a discovered default alone), then
\* "-DCENTRAL=1" exactly when rez-1 variables are on, rez-1 compatibility is
\* not disabled and the build type is central; each define is there once.
C11_ConfigureCommand ==
    ( BuildRan /\ calls # << >> )
    => LET command == calls[1].command
       IN  /\ command =
                << CmakePath, "-d", The(self).working_dir >>
                \o << "-Wno-dev", "-DCMAKE_ECLIPSE_GENERATE_SOURCE_PROJECT=TRUE",
                      "-D_ECLIPSE_VERSION=4.3", "--no-warn-unused-cli" >>
                \o The(self).build_args
                \o C11_Defines \o C11_Generator \o C11_Central
           /\ \A i \in DOMAIN C11_Defines : Count(C11_Defines[i], command) = 1
           /\ Count("-G", command) =
                ( IF IsNone(The(self).cmake_build_system) THEN 0 ELSE 1 )
           /\ Count("-DCENTRAL=1", command) = Len(C11_Central)

\* a legacy name, a central build with the compatibility define, and a
\* discovered default that is not passed
C11_Witness ==
    /\ BuildRan /\ calls # << >>
    /\ The(self).cmake_build_system = Some("make")
    /\ The(args).build_type = "central" /\ The(args).install
    /\ cls_default_build_system = Some("Unix Makefiles")
    /\ SubSeq(calls[1].command, Len(calls[1].command) - 2, Len(calls[1].command))
         = << "-G", "Unix Makefiles", "-DCENTRAL=1" >>

\* no selected generator and a discovered default: no -G
C11_WitnessDefault ==
    /\ BuildRan /\ calls # << >>
    /\ IsNone(The(self).cmake_build_system)
    /\ ~ IsNone(cls_default_build_system)
    /\ The(args).build_type = "central" /\ ~ The(args).rez_1_cmake_variables
    /\ Count("-G", calls[1].command) = 0

\* the arguments that start with "-j", among the arguments there are
C12_IsJobs(x) == x \in { "-j", "-j4", "-j8" }
C12_Jobs(command) == SelectSeq(command, C12_IsJobs)
C12_ThreadFlag == "-j" \o ToString(The(args).build_thread_count)
C12_BuildCall == BuildRan /\ Len(calls) >= 2

\* C12 as stated: whatever make_binary is, except nmake, the build command
\* holds one injected "-jN" when no child argument starts with "-j".
C12_AsStated ==
    C12_BuildCall
    => LET child == The(self).child_build_args
           command == calls[2].command
       IN  IF C12_Jobs(child) # << >> \/ The(self).make_binary = Some("nmake")
           THEN C12_Jobs(command) = C12_Jobs(child)
           ELSE C12_Jobs(command) = << C12_ThreadFlag >>

\* C12, amended: with a make_binary other than nmake, the build command is
\* make_binary followed by the child arguments when one of them starts with
\* "-j", and make_binary, "-jN", the child arguments when none does, N
\* being build_thread_count; with nmake, or with no make_binary, no
\* argument starting with "-j" is added to the child arguments.
C12_JobsFlag ==
    C12_BuildCall
    => LET child == The(self).child_build_args
           mk == The(self).make_binary
           command == calls[2].command
       IN  IF ~ IsNone(mk) /\ mk # Some("nmake")
           THEN IF C12_Jobs(child) # << >>
                THEN command = << The(mk) >> \o child
                ELSE /\ command = << The(mk), C12_ThreadFlag >> \o child
                     /\ C12_Jobs(command) = << C12_ThreadFlag >>
           ELSE C12_Jobs(command) = C12_Jobs(child)

C12_Witness ==
    /\ C12_BuildCall
    /\ The(self).make_binary = Some("make")
    /\ The(self).child_build_args = << "install" >>
    /\ The(args).build_thread_count = 8
    /\ calls[2].command = << "make", "-j8", "install" >>

(***************************************************************************)
(* Properties of _add_build_actions                                        *)
(***************************************************************************)
\* C13: applying _add_build_actions a second time to an executor, with the
\* same binding, leaves its environment (the CMAKE_MODULE_PATH list,
\* REZ_BUILD_DOXYFILE, REZ_BUILD_INSTALL_PYC) as the first application left
\* it.
C13_Idempotent ==
    executor.applied >= 2
    => /\ executor.env.CMAKE_MODULE_PATH = The(executor.once).CMAKE_MODULE_PATH
       /\ executor.env.REZ_BUILD_DOXYFILE = The(executor.once).REZ_BUILD_DOXYFILE
       /\ executor.env.REZ_BUILD_INSTALL_PYC = The(executor.once).REZ_BUILD_INSTALL_PYC

\* the part of C13 that holds: the two variables are the same after any
\* number of applications, and only the list grows, by the same directory
C13_VariablesOnly ==
    executor.applied >= 2
    => /\ executor.env.REZ_BUILD_DOXYFILE = The(executor.once).REZ_BUILD_DOXYFILE
       /\ executor.env.REZ_BUILD_INSTALL_PYC = The(executor.once).REZ_BUILD_INSTALL_PYC
       /\ executor.env.standard = The(executor.once).standard
       /\ Len(executor.env.CMAKE_MODULE_PATH)
            = Len(The(executor.once).CMAKE_MODULE_PATH) + executor.applied - 1

\* the other part of C13: every execute_shell call of a build() is given
\* the callback bound to that build()'s arguments
C13_SameBinding ==
    BuildRan
    => \A i \in DOMAIN calls :
         calls[i].callback =
           [ variant_index |-> The(args).variant_index,
             build_type |-> The(args).build_type, install |-> The(args).install,
             build_path |-> The(args).build_path,
             install_path |-> The(args).install_path ]

(***************************************************************************)
(* Properties of the forwarding script                                     *)
(***************************************************************************)
\* C14: the run of the forwarding script a build() wrote binds
\* _add_build_actions to the variant index, install flag, build path,
\* install path and build type that build() bound for its own
\* execute_shell call, and takes them from the five persisted arguments.
C14_ResumeSameBinding ==
    ~ IsNone(resumed)
    => /\ ~ IsNone(descriptor)
       /\ The(resumed).callback = calls[1].callback
       /\ The(resumed).cwd = calls[1].cwd

\* what does hold: the four persisted values come back as bound
C14_PersistedFields ==
    ~ IsNone(resumed)
    => /\ The(resumed).callback.variant_index = The(args).variant_index
       /\ The(resumed).callback.install = The(args).install
       /\ The(resumed).callback.build_path = The(args).build_path
       /\ The(resumed).callback.install_path = The(args).install_path
       /\ The(resumed).package = The(self).working_dir
       /\ The(resumed).callback.build_type = "local"

(***************************************************************************)
(* Properties of __init__                                                  *)
(***************************************************************************)
\* the names that select the Xcode generator: the legacy alias and the
\* generator's own name
C15_XcodeNames == { Some("xcode"), Some("Xcode") }

\* C15: on a platform other than osx no instance that selects the Xcode
\* generator, by its alias or by its name, comes out of __init__: the
\* constructor raises RezCMakeError, and so no execute_shell call is made
\* for it.
C15_XcodeNeedsOsx ==
    /\ ( ~ IsNone(self) /\ platform # "osx" )
       => The(self).cmake_build_system \notin C15_XcodeNames
    /\ ( op = "__init__" /\ raised # "" )
       => raised = "RezCMakeError" /\ IsNone(self) /\ calls = << >>

\* what does hold: the alias is refused
C15_AliasOnly ==
    /\ ( ~ IsNone(self) /\ platform # "osx" )
       => The(self).cmake_build_system # Some("xcode")
    /\ ( op = "__init__" /\ raised # "" )
       => raised = "RezCMakeError" /\ IsNone(self) /\ calls = << >>

(***************************************************************************)
(* Properties of the generator cache under threads (SpecThreads)           *)
(***************************************************************************)
\* a discovery has stored the dict and no thread is inside build_systems()
C16_Completed ==
    /\ cls_build_systems # None
    /\ \A t \in Threads : threads[t].pc = "idle"

\* C16: once a discovery has completed with no other call under way, no
\* step of any thread runs the tool again or changes the cached dict or
\* the default, and every call that starts is answered from the cache.
C16_SafeAfterFirst ==
    [][ C16_Completed
        => /\ helpCalls' = helpCalls
           /\ cls_build_systems' = cls_build_systems
           /\ cls_default_build_system' = cls_default_build_system
           /\ \A t \in Threads :
                /\ threads'[t].pc = "idle"
                /\ threads'[t].hits - threads[t].hits
                     = threads'[t].accesses - threads[t].accesses
      ]_vars

\* the second half of C16 is this state: two threads made their first call
\* together, the tool ran twice and both assigned the default; the calls
\* made after the dict was stored were answered from the cache
C16_Witness ==
    /\ C16_Completed
    /\ helpCalls = 2
    /\ \A t \in Threads : threads[t].wrote /\ threads[t].accesses = 2
                          /\ threads[t].hits = 1

\* without the race: one thread discovers, the other calls afterwards
C16_WitnessSerial ==
    /\ C16_Completed
    /\ helpCalls = 1
    /\ threads["t1"].accesses = 1 /\ threads["t1"].hits = 0
    /\ threads["t2"].accesses = 2 /\ threads["t2"].hits = 2

(***************************************************************************)
(* Properties of the build and install commands                            *)
(***************************************************************************)
\* C17: with no make_binary, the command of the build call is the tool
\* path, "--build", the build path, the child arguments as given, then
\* "--target" and "ALL_BUILD" on windows, "all" elsewhere; the command of
\* the install call is the same tool path, "--build", build path and child
\* arguments followed by "--target", "install", without the full-build
\* target; with a make_binary the build command holds no "--target".
C17_BuildTarget ==
    ( BuildRan /\ Len(calls) >= 2 )
    => LET child == The(self).child_build_args
           prefix == << CmakePath, "--build", The(args).build_path >>
       IN  IF IsNone(The(self).make_binary)
           THEN /\ calls[2].command =
                     prefix \o child
                     \o << "--target",
                           IF platform = "windows" THEN "ALL_BUILD" ELSE "all" >>
                /\ Len(calls) >= 3
                   => /\ calls[3].command = prefix \o child \o << "--target", "install" >>
                      /\ Count("all", calls[3].command) = 0
                      /\ Count("ALL_BUILD", calls[3].command) = 0
           ELSE Count("--target", calls[2].command) = 0

C17_Witness ==
    /\ BuildRan /\ Len(calls) = 3
    /\ platform = "windows" /\ IsNone(The(self).make_binary)
    /\ calls[2].command =
         << "/usr/bin/cmake", "--build", "/src/pkg/build", "-j8",
            "--target", "ALL_BUILD" >>
    /\ calls[3].command =
         << "/usr/bin/cmake", "--build", "/src/pkg/build", "-j8",
            "--target", "install" >>

\* C18: every command build() hands to execute_shell has a first element,
\* and it is the located tool or the configured make_binary.
C18_CommandHasExecutable ==
    BuildRan
    => \A i \in DOMAIN calls :
         /\ calls[i].command # << >>
         /\ \/ calls[i].command[1] = CmakePath
            \/ /\ ~ IsNone(The(self).make_binary)
               /\ calls[i].command[1] = The(The(self).make_binary)

\* what does hold: the same with nmake left out
C18_ExceptNmake ==
    ( BuildRan /\ The(self).make_binary # Some("nmake") )
    => \A i \in DOMAIN calls :
         /\ calls[i].command # << >>
         /\ \/ calls[i].command[1] = CmakePath
            \/ /\ ~ IsNone(The(self).make_binary)
               /\ calls[i].command[1] = The(The(self).make_binary)

(***************************************************************************)
(* Properties of the cached default                                        *)
(***************************************************************************)
\* C19: whenever the dict is cached, the cached default is None or one of
\* its keys; and a name default_build_system() returns is a key of the
\* dict build_systems() returns.
C19_DefaultInCatalog ==
    /\ cls_build_systems # None
       => \/ cls_default_build_system = None
          \/ InSeq(The(cls_default_build_system), The(cls_build_systems))
    /\ ( op = "default_build_system" /\ pc = "returned" /\ raised = ""
         /\ The(returned) # None )
       => /\ cls_build_systems # None
          /\ InSeq(The(The(returned)), The(cls_build_systems))

\* C20: a build_systems() or default_build_system() call that ends in an
\* exception leaves both class attributes None.
C20_FailedDiscoveryLeavesNothing ==
    ( op \in { "build_systems", "default_build_system" } /\ pc = "returned"
      /\ raised # "" )
    => /\ cls_build_systems = None
       /\ cls_default_build_system = None

\* what does hold: the dict stays None
C20_CatalogStaysUnset ==
    ( op \in { "build_systems", "default_build_system" } /\ pc = "returned"
      /\ raised # "" )
    => cls_build_systems = None

====
